---- MODULE Spec2Model ----
(***************************************************************************)
(* Appointment lifecycle, payment capture / refund orchestration and the   *)
(* doctor calendar of the mediconnect backend, as a state machine over     *)
(* the document store (Appointment, Payment, DoctorCalendar collections).  *)
(*                                                                         *)
(* Every action is one HTTP request handler (or webhook handler), taken    *)
(* as a whole.  The payment provider is external: the outcome of each of   *)
(* its API calls is an input of the action.  Email and notification        *)
(* dispatch swallow their own errors (emailService.js 195-198, 312-316;    *)
(* notificationService 22-25, 124-127) and write nothing to the three      *)
(* collections, so they do not appear in the store.                        *)
(*                                                                         *)
(* Time is counted in minutes since the epoch; the server's local time     *)
(* zone is taken to be UTC.                                                *)
(***************************************************************************)
EXTENDS Integers, Sequences, FiniteSets, TLC

\* ---------------------------------------------------------------- bounds
\* The number of requests a behaviour handles, and of documents it creates.
MaxOps == 5
MaxAppointments == 2
MaxPayments == 2
\* The number of requests in a behaviour of SpecStatus and of SpecNotify.
MaxStatusOps == 4

\* ------------------------------------------------------- program constants
MinutesPerDay == 1440
NoDate == -1
NoId == 0

Doctors == {"d1", "d2"}
Patients == {"p1", "p2"}
Users == Doctors \cup Patients
RoleOf(u) == IF u \in Doctors THEN "doctor" ELSE "patient"

StatusEnum == {"pending_payment", "pending", "confirmed", "cancelled",
               "completed", "no_show", "rescheduled"}
CancelledByEnum == {"patient", "doctor", "null"}
PaymentStatusEnum == {"PENDING", "PROCESSING", "COMPLETED", "FAILED",
                      "REFUNDED", "REFUND_FAILED"}

\* Inputs of the requests.
Times == {540, 555}
Durations == {15, 30}
Reasons == {"r1", "r2"}
Amounts == {50, 80}
AppointmentIds == 1..MaxAppointments
OrderIds == 1..MaxPayments

VARIABLES appointments, payments, calendars, response, ops, tasks

vars == <<appointments, payments, calendars, response, ops, tasks>>
store == <<appointments, payments, calendars>>

\* ------------------------------------------------------------ documents
\* rating.score is null until the appointment is rated; a stored score lies
\* in MinScore..MaxScore.
NoScore == 0
MinScore == 1
MaxScore == 5
NoRating == [score |-> NoScore, feedback |-> "null", isAnonymous |-> FALSE]

NewAppointment(doctorId, patientId, dateTime, duration) ==
    [doctorId |-> doctorId, patientId |-> patientId, dateTime |-> dateTime,
     duration |-> duration, status |-> "pending_payment",
     cancellationReason |-> "null", cancelledBy |-> "null",
     rescheduledFrom |-> NoDate, rating |-> NoRating]

NoRefund == [refundId |-> NoId, status |-> "null", amount |-> 0]

NewPayment(appointmentId, amount, orderId) ==
    [appointmentId |-> appointmentId, amount |-> amount, status |-> "PENDING",
     paypalOrderId |-> orderId, captureId |-> NoId, refundDetails |-> NoRefund]

NoCalendar == [exists |-> FALSE, defaultWorkingHours |-> <<>>, schedule |-> <<>>]

\* What the last request answered: the handler, the HTTP status, the body's success flag, the provider API it invoked
\* ("none" when it invoked none) and a tag for the body's message.
Reply(op, id, code, ok, api, note) ==
    [op |-> op, code |-> code, ok |-> ok, api |-> api, note |-> note]

\* Model.findOne(filter): the first document, in insertion order, that
\* matches; 0 when there is none.  `matches` is the set of positions of
\* the documents the filter accepts.
FindOne(matches) ==
    IF matches # {}
    THEN CHOOSE i \in matches : \A j \in matches : i <= j
    ELSE NoId

\* A handler or job that has started and not finished: where it stands
\* (pc), the appointment, caller and body of the request, the status it read
\* (seen), the Payment it loaded (target) and, for the hourly job, the
\* appointments its query returned and has not processed yet (found).
TaskIds == {"t1", "t2", "job"}
IdleTask ==
    [pc |-> "idle", id |-> NoId, user |-> "none", status |-> "none",
     reason |-> "none", seen |-> "none", target |-> NoId, found |-> <<>>]

Init ==
    /\ appointments = <<>>
    /\ payments = <<>>
    /\ calendars = [d \in Doctors |-> NoCalendar]
    /\ response = Reply("none", NoId, 0, TRUE, "none", "none")
    /\ ops = 0
    /\ tasks = [t \in TaskIds |-> IdleTask]

\* ------------------------------------------------- appointmentController
\* POST /api/appointments
CreateAppointment(user, doctorId, dateTime, duration) ==
    /\ Len(appointments) < MaxAppointments
    /\ appointments' = Append(appointments,
                              NewAppointment(doctorId, user, dateTime, duration))
    /\ response' = Reply("createAppointment", Len(appointments) + 1, 201, TRUE, "none", "created")
    /\ UNCHANGED <<payments, calendars>>

\* ---------------------------------------------------------- refundService
\* client.execute(CapturesRefundRequest(captureId)): the provider can refund
\* only a capture it knows; a Payment that was never captured carries no
\* captureId and the request for it errors.
ProviderRefundOutcomes(payment) ==
    IF payment.captureId = NoId THEN {"error"} ELSE {"ok", "error"}

RefundTarget(appointmentId) ==
    FindOne({i \in DOMAIN payments : payments[i].appointmentId = appointmentId})

\* Mutant: a provider error leaves the Payment as it was.
ProcessRefundKeepsStatusOnError(appointmentId, out) ==
    LET idx == RefundTarget(appointmentId) IN
    IF idx = NoId
    THEN [payments |-> payments, thrown |-> TRUE, api |-> "none"]
    ELSE IF payments[idx].status = "REFUNDED"
    THEN [payments |-> [payments EXCEPT ![idx].status = "REFUND_FAILED"],
          thrown |-> TRUE, api |-> "none"]
    ELSE IF out = "ok"
    THEN [payments |-> [payments EXCEPT
                          ![idx].status = "REFUNDED",
                          ![idx].refundDetails =
                              [refundId |-> idx, status |-> "COMPLETED",
                               amount |-> payments[idx].amount]],
          thrown |-> FALSE, api |-> "captures.refund"]
    ELSE [payments |-> payments, thrown |-> TRUE, api |-> "captures.refund"]

\* RefundService.processRefund(appointmentId, reason) with the provider's
\* answer `out`: the Payment collection afterwards, whether it threw, and
\* the provider API it invoked.
ProcessRefund(appointmentId, out) ==
    LET idx == RefundTarget(appointmentId) IN
    IF idx = NoId
    THEN [payments |-> payments, thrown |-> TRUE, api |-> "none"]
    ELSE IF payments[idx].status = "REFUNDED"
    THEN [payments |-> [payments EXCEPT ![idx].status = "REFUND_FAILED"],
          thrown |-> TRUE, api |-> "none"]
    ELSE IF out = "ok"
    THEN [payments |-> [payments EXCEPT
                          ![idx].status = "REFUNDED",
                          ![idx].refundDetails =
                              [refundId |-> idx, status |-> "COMPLETED",
                               amount |-> payments[idx].amount]],
          thrown |-> FALSE, api |-> "captures.refund"]
    ELSE [payments |-> [payments EXCEPT ![idx].status = "REFUND_FAILED"],
          thrown |-> TRUE, api |-> "captures.refund"]

RefundOutcomes(appointmentId) ==
    LET idx == RefundTarget(appointmentId) IN
    IF idx = NoId \/ payments[idx].status = "REFUNDED"
    THEN {"error"}
    ELSE ProviderRefundOutcomes(payments[idx])

\* Mutant: a patient may confirm.
StatusPermissionPatientMayConfirm(appointment, user, status) ==
    IF RoleOf(user) = "doctor" /\ appointment.doctorId # user THEN 403
    ELSE IF RoleOf(user) = "patient" /\ appointment.patientId # user THEN 403
    ELSE 0

\* The permission checks of updateAppointmentStatus: 0 when they pass.
StatusPermission(appointment, user, status) ==
    IF RoleOf(user) = "doctor" /\ appointment.doctorId # user THEN 403
    ELSE IF RoleOf(user) = "patient" /\ appointment.patientId # user THEN 403
    ELSE IF status = "confirmed" /\ RoleOf(user) # "doctor" THEN 403
    ELSE 0

\* Mutant: the cancellation forgets who cancelled.
StatusUpdateNoCancelledBy(appointment, user, status, reason) ==
    IF status = "cancelled"
    THEN [appointment EXCEPT !.status = status, !.cancellationReason = reason]
    ELSE [appointment EXCEPT !.status = status]

\* The document updateAppointmentStatus saves.
StatusUpdate(appointment, user, status, reason) ==
    IF status = "cancelled"
    THEN [appointment EXCEPT !.status = status,
                             !.cancellationReason = reason,
                             !.cancelledBy = RoleOf(user)]
    ELSE [appointment EXCEPT !.status = status]

\* PUT /api/appointments/:id/status
UpdateAppointmentStatus(id, user, status, reason, out) ==
    IF id \notin DOMAIN appointments
    THEN /\ response' = Reply("updateStatus", id, 404, FALSE, "none", "not_found")
         /\ UNCHANGED <<appointments, payments, calendars>>
    ELSE IF StatusPermission(appointments[id], user, status) # 0
    THEN /\ response' = Reply("updateStatus", id, 403, FALSE, "none", "forbidden")
         /\ UNCHANGED <<appointments, payments, calendars>>
    ELSE IF status = "cancelled"
    THEN LET refund == ProcessRefund(id, out) IN
         /\ out \in RefundOutcomes(id)
         /\ payments' = refund.payments
         /\ IF refund.thrown
            THEN /\ response' = Reply("updateStatus", id, 200, TRUE, refund.api,
                                      "refund_failed")
                 /\ UNCHANGED appointments
            ELSE /\ appointments' = [appointments EXCEPT ![id] =
                                        StatusUpdate(@, user, status, reason)]
                 /\ response' = Reply("updateStatus", id, 200, TRUE, refund.api,
                                      "updated")
         /\ UNCHANGED calendars
    ELSE /\ appointments' = [appointments EXCEPT ![id] =
                                StatusUpdate(@, user, status, reason)]
         /\ response' = Reply("updateStatus", id, 200, TRUE, "none", "updated")
         /\ UNCHANGED <<payments, calendars>>

\* The conflict query of requestReschedule: another appointment of the
\* doctor that is pending or confirmed and starts strictly after newDateTime
\* and before newDateTime + duration.
RescheduleConflict(id, newDateTime) ==
    LET endDateTime == newDateTime + appointments[id].duration IN
    \E j \in DOMAIN appointments :
        /\ appointments[j].doctorId = appointments[id].doctorId
        /\ j # id
        /\ appointments[j].status \in {"pending", "confirmed"}
        /\ appointments[j].dateTime < endDateTime
        /\ appointments[j].dateTime > newDateTime

\* POST /api/appointments/:id/reschedule
RequestReschedule(id, user, newDateTime) ==
    /\ UNCHANGED <<payments, calendars>>
    /\ IF id \notin DOMAIN appointments
       THEN /\ response' = Reply("reschedule", id, 404, FALSE, "none", "not_found")
            /\ UNCHANGED appointments
       ELSE IF RoleOf(user) # "patient" \/ appointments[id].patientId # user
       THEN /\ response' = Reply("reschedule", id, 403, FALSE, "none", "forbidden")
            /\ UNCHANGED appointments
       ELSE IF RescheduleConflict(id, newDateTime)
       THEN /\ response' = Reply("reschedule", id, 400, FALSE, "none", "conflict")
            /\ UNCHANGED appointments
       ELSE /\ appointments' = [appointments EXCEPT
                                  ![id].rescheduledFrom = appointments[id].dateTime,
                                  ![id].dateTime = newDateTime,
                                  ![id].status = "pending"]
            /\ response' = Reply("reschedule", id, 200, TRUE, "none", "updated")

\* Mutant: any appointment of the patient can be rated.
RatableAnyStatus(appointment) == TRUE

\* The status check of addRating.
Ratable(appointment) == appointment.status = "completed"

\* POST /api/appointments/:id/rating
AddRating(id, user, score, feedback, isAnonymous) ==
    /\ UNCHANGED <<payments, calendars>>
    /\ IF id \notin DOMAIN appointments
       THEN /\ response' = Reply("addRating", id, 404, FALSE, "none", "not_found")
            /\ UNCHANGED appointments
       ELSE IF RoleOf(user) # "patient" \/ appointments[id].patientId # user
       THEN /\ response' = Reply("addRating", id, 403, FALSE, "none", "forbidden")
            /\ UNCHANGED appointments
       ELSE IF ~Ratable(appointments[id])
       THEN /\ response' = Reply("addRating", id, 400, FALSE, "none", "not_completed")
            /\ UNCHANGED appointments
       ELSE IF score < MinScore \/ score > MaxScore
       THEN /\ response' = Reply("addRating", id, 400, FALSE, "none", "invalid")
            /\ UNCHANGED appointments
       ELSE /\ appointments' = [appointments EXCEPT ![id].rating =
                                  [score |-> score, feedback |-> feedback,
                                   isAnonymous |-> isAnonymous]]
            /\ response' = Reply("addRating", id, 200, TRUE, "none", "updated")

\* ---------------------------------------------------------- paymentService
\* PaymentService.createPaymentOrder behind POST /api/payments/create-order;
\* `out` is the provider's answer to OrdersCreateRequest.  The controller
\* answers 200 whatever the service returned; `ok` is the service's success.
CreatePaymentOrder(appointmentId, amount, out) ==
    /\ UNCHANGED calendars
    /\ IF appointmentId \notin DOMAIN appointments
       THEN /\ response' = Reply("createOrder", appointmentId, 200, FALSE, "none",
                                 "not_found")
            /\ UNCHANGED <<appointments, payments>>
       ELSE IF appointments[appointmentId].status \notin {"pending_payment", "pending"}
       THEN /\ response' = Reply("createOrder", appointmentId, 200, FALSE, "none",
                                 "invalid_status")
            /\ UNCHANGED <<appointments, payments>>
       ELSE IF out # "ok"
       THEN /\ response' = Reply("createOrder", appointmentId, 200, FALSE,
                                 "orders.create", "provider_error")
            /\ UNCHANGED <<appointments, payments>>
       ELSE /\ Len(payments) < MaxPayments
            /\ payments' = Append(payments,
                                  NewPayment(appointmentId, amount, Len(payments) + 1))
            /\ appointments' = [appointments EXCEPT ![appointmentId].status = "pending"]
            /\ response' = Reply("createOrder", appointmentId, 200, TRUE,
                                 "orders.create", "created")

\* capture.result.purchase_units[0].payments.captures[0].id: the capture the
\* provider made for the order; one capture id per order.
ProviderCaptureId(orderId) == orderId

OrderTarget(orderId) ==
    FindOne({i \in DOMAIN payments : payments[i].paypalOrderId = orderId})

\* PaymentService.capturePayment behind POST /api/payments/capture/:orderId;
\* `out` is the provider's answer to OrdersCaptureRequest: the capture's
\* status, or an error.
CapturePayment(orderId, out) ==
    LET idx == OrderTarget(orderId) IN
    /\ UNCHANGED calendars
    /\ IF idx = NoId
       THEN /\ response' = Reply("capture", orderId, 400, FALSE, "none", "not_found")
            /\ UNCHANGED <<appointments, payments>>
       ELSE IF out # "COMPLETED"
       THEN /\ response' = Reply("capture", orderId, 400, FALSE, "orders.capture",
                                 "provider_error")
            /\ UNCHANGED <<appointments, payments>>
       ELSE /\ payments' = [payments EXCEPT ![idx].status = "COMPLETED",
                                            ![idx].captureId = ProviderCaptureId(orderId)]
            /\ appointments' =
                  [appointments EXCEPT ![payments[idx].appointmentId].status = "pending"]
            /\ response' = Reply("capture", orderId, 200, TRUE, "orders.capture",
                                 "captured")

\* ---------------------------------------------------------- webhookService
CaptureTarget(resourceId) ==
    FindOne({i \in DOMAIN payments : payments[i].captureId = resourceId})

HandlePaymentSuccess(resourceId) ==
    LET idx == CaptureTarget(resourceId) IN
    IF idx = NoId
    THEN UNCHANGED <<appointments, payments>>
    ELSE /\ payments' = [payments EXCEPT ![idx].status = "COMPLETED"]
         /\ appointments' =
               [appointments EXCEPT ![payments[idx].appointmentId].status = "pending"]

HandlePaymentFailure(resourceId) ==
    LET idx == CaptureTarget(resourceId) IN
    IF idx = NoId
    THEN UNCHANGED <<appointments, payments>>
    ELSE /\ payments' = [payments EXCEPT ![idx].status = "FAILED"]
         /\ appointments' =
               [appointments EXCEPT
                  ![payments[idx].appointmentId].status = "pending_payment"]

HandleRefundSuccess(resourceId) ==
    LET idx == FindOne({i \in DOMAIN payments :
                          payments[i].refundDetails.refundId = resourceId}) IN
    /\ UNCHANGED appointments
    /\ IF idx = NoId
       THEN UNCHANGED payments
       ELSE payments' = [payments EXCEPT ![idx].status = "REFUNDED",
                                         ![idx].refundDetails.status = "COMPLETED"]

WebhookEvents == {"PAYMENT.CAPTURE.COMPLETED", "PAYMENT.CAPTURE.DENIED",
                  "REFUND.COMPLETED"}

\* POST /api/payments/webhook: validateWebhook accepts every request.
HandleWebhook(eventType, resourceId) ==
    /\ response' = Reply("webhook", resourceId, 200, TRUE, "none", "processed")
    /\ UNCHANGED calendars
    /\ CASE eventType = "PAYMENT.CAPTURE.COMPLETED" -> HandlePaymentSuccess(resourceId)
         [] eventType = "PAYMENT.CAPTURE.DENIED" -> HandlePaymentFailure(resourceId)
         [] eventType = "REFUND.COMPLETED" -> HandleRefundSuccess(resourceId)

\* WebhookService.validateWebhook(headers, body) for a request whose
\* paypal-transmission-sig is `signature`: the validation message is built
\* and then `true` is returned whatever the signature.
Signatures == {"valid", "invalid"}
ValidateWebhook(signature) == TRUE

\* POST /api/payments/webhook, with the signature the request carries.
HandleSignedWebhook(signature, eventType, resourceId) ==
    IF ~ValidateWebhook(signature)
    THEN /\ response' = Reply("webhook", resourceId, 400, FALSE, "none",
                              "invalid_signature")
         /\ UNCHANGED <<appointments, payments, calendars>>
    ELSE HandleWebhook(eventType, resourceId)

\* ------------------------------------------- emails and notifications
\* What a handler sees of a dispatch (emailService.sendAppointmentEmails,
\* emailService.sendPaymentNotification,
\* NotificationService.createAppointmentNotifications) whose delivery ended
\* as `mail`: each of them catches every error of the transport or of the
\* notification store, logs it and returns false, so nothing is thrown into
\* the handler.
MailOutcomes == {"sent", "failed"}

\* Mutant: a failed delivery is thrown into the handler.
DispatchThrowsOnFailure(mail) == mail = "failed"

DispatchThrows(mail) == FALSE

\* createAppointment with its dispatches: both are inside a try whose catch
\* logs and goes on to the 201 reply.
CreateAppointmentMail(user, doctorId, dateTime, duration, mail) ==
    CreateAppointment(user, doctorId, dateTime, duration)

\* processRefund with its refund_completed email, which is sent after the
\* Payment is saved and inside the try whose catch marks the Payment
\* REFUND_FAILED and rethrows.
ProcessRefundMail(appointmentId, out, mail) ==
    LET refund == ProcessRefund(appointmentId, out)
        idx == RefundTarget(appointmentId)
    IN IF ~refund.thrown /\ DispatchThrows(mail)
       THEN [payments |-> [refund.payments EXCEPT ![idx].status = "REFUND_FAILED"],
             thrown |-> TRUE, api |-> refund.api]
       ELSE refund

\* updateAppointmentStatus with its dispatches: the cancellation emails are
\* sent inside the try around the refund, the confirmation emails before the
\* save, the notifications after it.
UpdateAppointmentStatusMail(id, user, status, reason, out, mail) ==
    IF \/ id \notin DOMAIN appointments
       \/ StatusPermission(appointments[id], user, status) # 0
       \/ ~DispatchThrows(mail)
    THEN UpdateAppointmentStatus(id, user, status, reason, out)
    ELSE IF status = "cancelled"
    THEN LET refund == ProcessRefundMail(id, out, mail) IN
         /\ out \in RefundOutcomes(id)
         /\ payments' = refund.payments
         /\ response' = Reply("updateStatus", id, 200, TRUE, refund.api,
                              "refund_failed")
         /\ UNCHANGED <<appointments, calendars>>
    ELSE IF status = "confirmed"
    THEN /\ response' = Reply("updateStatus", id, 500, FALSE, "none", "error")
         /\ UNCHANGED <<appointments, payments, calendars>>
    ELSE /\ appointments' = [appointments EXCEPT ![id] =
                                StatusUpdate(@, user, status, reason)]
         /\ response' = Reply("updateStatus", id, 500, FALSE, "none", "error")
         /\ UNCHANGED <<payments, calendars>>

\* capturePayment with its payment_success email: the controller sends it
\* inside a try whose catch logs and goes on to the 200 reply.
CapturePaymentMail(orderId, out, mail) ==
    CapturePayment(orderId, out)

\* ------------------------------------------------------ calendarController
\* A time string is the sequence of its characters: a digit stands for
\* itself and Colon for ":", which keeps the order of the character codes
\* ("0" < ... < "9" < ":").
Colon == 10

\* Date.toTimeString().slice(0, 5): the time of day as "HH:MM".
FormatHHMM(dateTime) ==
    LET minutes == dateTime % MinutesPerDay
        h == minutes \div 60
        m == minutes % 60
    IN <<h \div 10, h % 10, Colon, m \div 10, m % 10>>

\* a < b on strings: by character code, a proper prefix first.
StrLess(a, b) ==
    \E k \in 1..Len(b) :
        /\ k - 1 <= Len(a)
        /\ \A i \in 1..(k - 1) : a[i] = b[i]
        /\ (Len(a) = k - 1 \/ a[k] < b[k])

\* /^([01]?[0-9]|2[0-3]):[0-5][0-9]$/
TimeRegex(str) ==
    \/ /\ Len(str) = 5
       /\ \/ str[1] \in {0, 1} /\ str[2] \in 0..9
          \/ str[1] = 2 /\ str[2] \in 0..3
       /\ str[3] = Colon /\ str[4] \in 0..5 /\ str[5] \in 0..9
    \/ /\ Len(str) = 4
       /\ str[1] \in 0..9
       /\ str[2] = Colon /\ str[3] \in 0..5 /\ str[4] \in 0..9

\* toISOString().split('T')[0]: the calendar date, as days since the epoch.
IsoDate(dateTime) == dateTime \div MinutesPerDay

NewSlot(startTime, endTime, isBlocked) ==
    [startTime |-> startTime, endTime |-> endTime, isBooked |-> FALSE,
     isBlocked |-> isBlocked]

ValidSlots(slots) ==
    \A i \in DOMAIN slots :
        /\ TimeRegex(slots[i].startTime)
        /\ TimeRegex(slots[i].endTime)
        /\ StrLess(slots[i].startTime, slots[i].endTime)

\* What a calendar write answers once the calendar is saved: the handler then
\* awaits emailService.sendScheduleUpdate, which the EmailService class does
\* not define, so the call throws, the handler's catch hands the TypeError
\* to the error handler and the request is answered 500 with the write kept.
ScheduleSavedReply(op) == Reply(op, NoId, 500, FALSE, "none", "saved")

\* POST /api/calendar/working-hours
SetDefaultWorkingHours(user, hours) ==
    /\ UNCHANGED <<appointments, payments>>
    /\ IF ~(\A i \in DOMAIN hours : ValidSlots(hours[i].slots))
       THEN /\ response' = Reply("workingHours", NoId, 400, FALSE, "none", "invalid")
            /\ UNCHANGED calendars
       ELSE /\ calendars' = [calendars EXCEPT ![user].exists = TRUE,
                                              ![user].defaultWorkingHours = hours]
            /\ response' = ScheduleSavedReply("workingHours")

\* The appointment blockTimeSlot looks at: Appointment.findOne of the doctor,
\* on the date, pending or confirmed.
BlockProbe(user, date) ==
    FindOne({i \in DOMAIN appointments :
                /\ appointments[i].doctorId = user
                /\ appointments[i].dateTime >= date
                /\ appointments[i].dateTime < date + MinutesPerDay
                /\ appointments[i].status \in {"pending", "confirmed"}})

BlockConflict(user, date, startTime, endTime) ==
    LET j == BlockProbe(user, date) IN
    /\ j # NoId
    /\ ~StrLess(FormatHHMM(appointments[j].dateTime), startTime)
    /\ StrLess(FormatHHMM(appointments[j].dateTime), endTime)

DateIndex(schedule, date) ==
    FindOne({i \in DOMAIN schedule : IsoDate(schedule[i].date) = IsoDate(date)})

\* The schedule blockTimeSlot saves.
BlockedSchedule(schedule, date, startTime, endTime) ==
    LET dateIndex == DateIndex(schedule, date)
        slot == NewSlot(startTime, endTime, TRUE)
    IN IF dateIndex # NoId
       THEN [schedule EXCEPT ![dateIndex].slots =
               Append(SelectSeq(@, LAMBDA x : x.startTime # startTime
                                              \/ x.endTime # endTime),
                      slot)]
       ELSE Append(schedule, [date |-> date, slots |-> <<slot>>,
                              isHoliday |-> FALSE])

\* POST /api/calendar/block-slot
BlockTimeSlot(user, date, startTime, endTime) ==
    /\ UNCHANGED <<appointments, payments>>
    /\ IF ~TimeRegex(startTime) \/ ~TimeRegex(endTime)
       THEN /\ response' = Reply("blockSlot", NoId, 400, FALSE, "none", "invalid")
            /\ UNCHANGED calendars
       ELSE IF ~calendars[user].exists
       THEN /\ response' = Reply("blockSlot", NoId, 404, FALSE, "none", "not_found")
            /\ UNCHANGED calendars
       ELSE IF BlockConflict(user, date, startTime, endTime)
       THEN /\ response' = Reply("blockSlot", NoId, 400, FALSE, "none", "conflict")
            /\ UNCHANGED calendars
       ELSE /\ calendars' = [calendars EXCEPT ![user].schedule =
                                BlockedSchedule(@, date, startTime, endTime)]
            /\ response' = ScheduleSavedReply("blockSlot")

\* slots.reduce(...): the first slot of every (startTime, endTime) pair.
UniqueSlots(slots) ==
    LET kept == {i \in DOMAIN slots :
                    \A j \in 1..(i - 1) :
                        \/ slots[j].startTime # slots[i].startTime
                        \/ slots[j].endTime # slots[i].endTime}
        Pick[i \in 0..Len(slots)] ==
            IF i = 0 THEN <<>>
            ELSE IF i \in kept THEN Append(Pick[i - 1], slots[i])
            ELSE Pick[i - 1]
    IN Pick[Len(slots)]

\* The schedule updateDateSchedule saves: an existing entry of the date is
\* replaced with the de-duplicated slots, a new entry is pushed with the
\* slots as they were sent.
UpdatedSchedule(schedule, date, slots, isHoliday) ==
    LET dateIndex == DateIndex(schedule, date)
    IN IF dateIndex # NoId
       THEN [schedule EXCEPT ![dateIndex] =
               [date |-> date, slots |-> UniqueSlots(slots),
                isHoliday |-> isHoliday]]
       ELSE Append(schedule, [date |-> date, slots |-> slots,
                              isHoliday |-> isHoliday])

\* PUT /api/calendar/date/:date
UpdateDateSchedule(user, date, slots, isHoliday) ==
    /\ UNCHANGED <<appointments, payments>>
    /\ IF ~ValidSlots(slots)
       THEN /\ response' = Reply("dateSchedule", NoId, 400, FALSE, "none", "invalid")
            /\ UNCHANGED calendars
       ELSE IF ~calendars[user].exists
       THEN /\ response' = Reply("dateSchedule", NoId, 404, FALSE, "none", "not_found")
            /\ UNCHANGED calendars
       ELSE /\ calendars' = [calendars EXCEPT ![user].schedule =
                                UpdatedSchedule(@, date, slots, isHoliday)]
            /\ response' = ScheduleSavedReply("dateSchedule")

\* slots.splice(slotIndex, 1)
RemoveAt(slots, slotIndex) ==
    SubSeq(slots, 1, slotIndex - 1) \o SubSeq(slots, slotIndex + 1, Len(slots))

\* DELETE /api/calendar/block-slot/:date/:slotId; the slot id names the slot
\* at position slotIndex of the date's entry, or no slot of it.
UnblockTimeSlot(user, date, slotIndex) ==
    LET dateIndex == DateIndex(calendars[user].schedule, date) IN
    /\ UNCHANGED <<appointments, payments>>
    /\ IF ~calendars[user].exists
       THEN /\ response' = Reply("unblockSlot", NoId, 404, FALSE, "none", "not_found")
            /\ UNCHANGED calendars
       ELSE IF dateIndex = NoId
       THEN /\ response' = Reply("unblockSlot", NoId, 404, FALSE, "none", "no_schedule")
            /\ UNCHANGED calendars
       ELSE IF slotIndex \notin DOMAIN calendars[user].schedule[dateIndex].slots
       THEN /\ response' = Reply("unblockSlot", NoId, 404, FALSE, "none", "no_slot")
            /\ UNCHANGED calendars
       ELSE /\ calendars' = [calendars EXCEPT ![user].schedule[dateIndex].slots =
                                RemoveAt(@, slotIndex)]
            /\ response' = ScheduleSavedReply("unblockSlot")

\* requestedDate.getDay() as a day name; day 0 of the epoch is a Thursday.
DayNames == <<"Sunday", "Monday", "Tuesday", "Wednesday", "Thursday", "Friday",
              "Saturday">>
DayOfWeek(date) == DayNames[((IsoDate(date) + 4) % 7) + 1]

\* a.localeCompare(b) < 0 on time strings: ":" collates before the digits.
LocaleLess(a, b) ==
    LET Key(str) == [i \in DOMAIN str |-> IF str[i] = Colon THEN -1 ELSE str[i]]
    IN StrLess(Key(a), Key(b))

\* Array.prototype.sort by startTime; slots that compare equal keep their
\* order.
SortSlots(slots) ==
    LET Insert(sorted, slot) ==
            LET pos == Cardinality({i \in DOMAIN sorted :
                           ~LocaleLess(slot.startTime, sorted[i].startTime)})
            IN SubSeq(sorted, 1, pos) \o <<slot>>
               \o SubSeq(sorted, pos + 1, Len(sorted))
        Sorted[i \in 0..Len(slots)] ==
            IF i = 0 THEN <<>> ELSE Insert(Sorted[i - 1], slots[i])
    IN Sorted[Len(slots)]

\* Appointment.find of getAvailableSlots: the doctor's pending and confirmed
\* appointments of the date.
BookedAppointments(doctorId, date) ==
    {i \in DOMAIN appointments :
        /\ appointments[i].doctorId = doctorId
        /\ appointments[i].dateTime >= date
        /\ appointments[i].dateTime < date + MinutesPerDay
        /\ appointments[i].status \in {"pending", "confirmed"}}

\* Mutant: a holiday entry falls back to the default working hours.
CandidateSlotsHolidayFallsBack(calendar, date) ==
    LET dayIndex == DateIndex(calendar.schedule, date)
        defaultIndex == FindOne({i \in DOMAIN calendar.defaultWorkingHours :
                           calendar.defaultWorkingHours[i].day = DayOfWeek(date)})
    IN IF dayIndex # NoId /\ ~calendar.schedule[dayIndex].isHoliday
       THEN calendar.schedule[dayIndex].slots
       ELSE IF /\ defaultIndex # NoId
               /\ calendar.defaultWorkingHours[defaultIndex].isWorking
       THEN calendar.defaultWorkingHours[defaultIndex].slots
       ELSE <<>>

\* The slots getAvailableSlots starts from.
CandidateSlots(calendar, date) ==
    LET dayIndex == DateIndex(calendar.schedule, date)
        defaultIndex == FindOne({i \in DOMAIN calendar.defaultWorkingHours :
                           calendar.defaultWorkingHours[i].day = DayOfWeek(date)})
    IN IF dayIndex # NoId /\ ~calendar.schedule[dayIndex].isHoliday
       THEN calendar.schedule[dayIndex].slots
       ELSE IF /\ dayIndex = NoId
               /\ defaultIndex # NoId
               /\ calendar.defaultWorkingHours[defaultIndex].isWorking
       THEN calendar.defaultWorkingHours[defaultIndex].slots
       ELSE <<>>

\* .filter(slot => !slot.isBlocked)
ListedSlots(slots) == SelectSeq(slots, LAMBDA slot : ~slot.isBlocked)

\* data.availableSlots of getAvailableSlots.
AvailableSlots(doctorId, date) ==
    LET booked == BookedAppointments(doctorId, date)
        candidates == CandidateSlots(calendars[doctorId], date)
        marked == [i \in DOMAIN candidates |->
                     [candidates[i] EXCEPT !.isBooked =
                         \E j \in booked :
                             FormatHHMM(appointments[j].dateTime)
                                 = candidates[i].startTime]]
    IN SortSlots(ListedSlots(marked))

\* GET /api/calendar/available-slots/:doctorId/:date
GetAvailableSlots(doctorId, date) ==
    /\ UNCHANGED <<appointments, payments, calendars>>
    /\ IF ~calendars[doctorId].exists
       THEN response' = [op |-> "availableSlots", code |-> 404, ok |-> FALSE,
                         api |-> "none", note |-> "not_found",
                         date |-> date, availableSlots |-> <<>>]
       ELSE response' = [op |-> "availableSlots", code |-> 200, ok |-> TRUE,
                         api |-> "none", note |-> "listed",
                         date |-> date,
                         availableSlots |-> AvailableSlots(doctorId, date)]

\* ------------------------------------------------------------ cronService
NoShowGraceMinutes == 30

\* Mutant: an appointment exactly thirty minutes old is missed too.
MissedInclusive(appointment, now) ==
    /\ appointment.status = "confirmed"
    /\ appointment.dateTime <= now - NoShowGraceMinutes

\* The filter of the hourly job: confirmed, and before thirtyMinutesAgo.
Missed(appointment, now) ==
    /\ appointment.status = "confirmed"
    /\ appointment.dateTime < now - NoShowGraceMinutes

\* cron.schedule('0 * * * *', ...): one run of the no-show job at time `now`.
\* It answers no request; the reply only records that the job ran.
NoShowJob(now) ==
    /\ appointments' = [i \in DOMAIN appointments |->
                           IF Missed(appointments[i], now)
                           THEN [appointments[i] EXCEPT !.status = "no_show"]
                           ELSE appointments[i]]
    /\ response' = Reply("noShowJob", NoId, 0, TRUE, "none", "ran")
    /\ UNCHANGED <<payments, calendars>>

\* ------------------------------------------------ handlers, await by await
\* updateAppointmentStatus up to its first write or provider call: findById
\* and the permission checks; for a cancellation the in-memory
\* cancellationReason and cancelledBy and processRefund's Payment.findOne
\* with its two guards; for a confirmation the confirmation emails, which
\* are sent before the save.
UpdateStatusLoad(t, id, user, status, reason) ==
    /\ tasks[t].pc = "idle"
    /\ IF id \notin DOMAIN appointments
       THEN /\ response' = Reply("updateStatus", id, 404, FALSE, "none",
                                 "not_found")
            /\ UNCHANGED <<appointments, payments, calendars, tasks>>
       ELSE IF StatusPermission(appointments[id], user, status) # 0
       THEN /\ response' = Reply("updateStatus", id, 403, FALSE, "none",
                                 "forbidden")
            /\ UNCHANGED <<appointments, payments, calendars, tasks>>
       ELSE LET idx == RefundTarget(id)
                started == [pc |-> "loaded", id |-> id, user |-> user,
                            status |-> status, reason |-> reason,
                            seen |-> appointments[id].status,
                            target |-> NoId, found |-> <<>>]
            IN
            IF status = "cancelled" /\ idx = NoId
            THEN /\ response' = Reply("updateStatus", id, 200, TRUE, "none",
                                      "refund_failed")
                 /\ UNCHANGED <<appointments, payments, calendars, tasks>>
            ELSE IF status = "cancelled" /\ payments[idx].status = "REFUNDED"
            THEN /\ payments' = [payments EXCEPT
                                    ![idx].status = "REFUND_FAILED"]
                 /\ response' = Reply("updateStatus", id, 200, TRUE, "none",
                                      "refund_failed")
                 /\ UNCHANGED <<appointments, calendars, tasks>>
            ELSE /\ tasks' = [tasks EXCEPT ![t] =
                                 IF status = "cancelled"
                                 THEN [started EXCEPT !.pc = "refunding",
                                                      !.target = idx]
                                 ELSE IF status = "confirmed"
                                 THEN [started EXCEPT !.pc = "mailed"]
                                 ELSE started]
                 /\ UNCHANGED <<appointments, payments, calendars, response>>

\* The provider answers processRefund's captures.refund with `out`.  On
\* success the loaded Payment is saved REFUNDED and the refund and
\* cancellation emails go out; on an error the catch saves it REFUND_FAILED
\* and updateAppointmentStatus answers 200 without saving the appointment.
UpdateStatusRefund(t, out) ==
    LET idx == tasks[t].target IN
    /\ tasks[t].pc = "refunding"
    /\ out \in ProviderRefundOutcomes(payments[idx])
    /\ IF out = "ok"
       THEN /\ payments' = [payments EXCEPT
                               ![idx].status = "REFUNDED",
                               ![idx].refundDetails =
                                   [refundId |-> idx, status |-> "COMPLETED",
                                    amount |-> payments[idx].amount]]
            /\ tasks' = [tasks EXCEPT ![t].pc = "mailed"]
            /\ UNCHANGED <<appointments, calendars, response>>
       ELSE /\ payments' = [payments EXCEPT ![idx].status = "REFUND_FAILED"]
            /\ tasks' = [tasks EXCEPT ![t] = IdleTask]
            /\ response' = Reply("updateStatus", tasks[t].id, 200, TRUE,
                                 "captures.refund", "refund_failed")
            /\ UNCHANGED <<appointments, calendars>>

\* appointment.status = status; await appointment.save(): the paths the
\* handler modified are written over the stored document, whatever it holds
\* by now; then the notifications and the 200 reply.
UpdateStatusSave(t) ==
    LET id == tasks[t].id IN
    /\ tasks[t].pc \in {"loaded", "mailed"}
    /\ appointments' = [appointments EXCEPT ![id] =
                           StatusUpdate(@, tasks[t].user, tasks[t].status,
                                        tasks[t].reason)]
    /\ tasks' = [tasks EXCEPT ![t] = IdleTask]
    /\ response' = Reply("updateStatus", id, 200, TRUE,
                         IF tasks[t].status = "cancelled"
                         THEN "captures.refund" ELSE "none",
                         "updated")
    /\ UNCHANGED <<payments, calendars>>

\* The documents the hourly job's Appointment.find returns, in the order of
\* the collection.
MissedIds(now) ==
    SelectSeq([i \in 1..Len(appointments) |-> i],
              LAMBDA i : Missed(appointments[i], now))

\* The hourly job up to its loop: the query at time `now`.
NoShowJobFind(now) ==
    /\ tasks["job"].pc = "idle"
    /\ tasks' = [tasks EXCEPT !["job"] =
                    IF MissedIds(now) = <<>> THEN IdleTask
                    ELSE [IdleTask EXCEPT !.pc = "sweeping",
                                          !.found = MissedIds(now)]]
    /\ response' = Reply("noShowJob", NoId, 0, TRUE, "none", "found")
    /\ UNCHANGED <<appointments, payments, calendars>>

\* The stored appointments whose save() throws each time it is tried.
Unsavable == {1}

\* One turn of the job's loop, on the next document its query returned:
\* status = 'no_show' and save(), which writes the status over the stored
\* document.  Nothing in the loop catches: a save that throws ends the run
\* with the documents after it untouched.
NoShowJobSave ==
    LET id == Head(tasks["job"].found) IN
    /\ tasks["job"].pc = "sweeping"
    /\ IF id \in Unsavable
       THEN /\ tasks' = [tasks EXCEPT !["job"] = IdleTask]
            /\ response' = Reply("noShowJob", id, 0, FALSE, "none", "thrown")
            /\ UNCHANGED <<appointments, payments, calendars>>
       ELSE /\ appointments' = [appointments EXCEPT ![id].status = "no_show"]
            /\ tasks' = [tasks EXCEPT !["job"] =
                            IF Len(tasks["job"].found) = 1 THEN IdleTask
                            ELSE [@ EXCEPT !.found = Tail(@)]]
            /\ response' = Reply("noShowJob", id, 0, TRUE, "none", "saved")
            /\ UNCHANGED <<payments, calendars>>

Bookers == {"p1"}

Request ==
    \/ \E u \in Bookers, d \in Doctors, t \in Times, dur \in Durations :
          CreateAppointment(u, d, t, dur)
    \/ \E id \in AppointmentIds, u \in Users, st \in StatusEnum, r \in Reasons,
          out \in {"ok", "error"} :
          /\ st = "cancelled" \/ (r = "r1" /\ out = "error")
          /\ UpdateAppointmentStatus(id, u, st, r, out)
    \/ \E id \in AppointmentIds, u \in Users, t \in Times :
          RequestReschedule(id, u, t)
    \/ \E id \in AppointmentIds, a \in Amounts, out \in {"ok", "error"} :
          CreatePaymentOrder(id, a, out)
    \/ \E o \in OrderIds, out \in {"COMPLETED", "DECLINED", "error"} :
          CapturePayment(o, out)
    \/ \E e \in WebhookEvents, rid \in OrderIds :
          HandleWebhook(e, rid)

Next ==
    /\ ops < MaxOps
    /\ ops' = ops + 1
    /\ UNCHANGED tasks
    /\ Request

Spec == Init /\ [][Next]_vars

\* The booking-to-refund flow alone: every appointment at the same time of
\* day with the default duration, and no reschedule.
FlowRequest ==
    \/ \E u \in Bookers, d \in Doctors : CreateAppointment(u, d, 540, 30)
    \/ \E id \in AppointmentIds, u \in Users, st \in StatusEnum, r \in Reasons,
          out \in {"ok", "error"} :
          /\ st = "cancelled" \/ (r = "r1" /\ out = "error")
          /\ UpdateAppointmentStatus(id, u, st, r, out)
    \/ \E id \in AppointmentIds, a \in Amounts, out \in {"ok", "error"} :
          CreatePaymentOrder(id, a, out)
    \/ \E o \in OrderIds, out \in {"COMPLETED", "DECLINED", "error"} :
          CapturePayment(o, out)
    \/ \E e \in WebhookEvents, rid \in OrderIds :
          HandleWebhook(e, rid)

FlowNext ==
    /\ ops < MaxOps
    /\ ops' = ops + 1
    /\ UNCHANGED tasks
    /\ FlowRequest

SpecFlow == Init /\ [][FlowNext]_vars
\* The calendar beside the appointments it is checked against.  Doctor d1
\* has already set (empty) default working hours, so owns a calendar; d2
\* has none yet.  Appointments are on day 0, at 09:00 and 09:15.
BlockRanges == {<<<<0, 9, Colon, 0, 0>>, <<0, 9, Colon, 1, 5>>>>,
                <<<<0, 9, Colon, 1, 5>>, <<1, 0, Colon, 0, 0>>>>,
                <<<<9, Colon, 0, 0>>, <<1, 0, Colon, 0, 0>>>>,
                <<<<2, 5, Colon, 0, 0>>, <<1, 0, Colon, 0, 0>>>>}
CalStatuses == {"pending", "completed"}
BlockDates == {0, MinutesPerDay}
WeeklyInputs ==
    {<<>>,
     <<[day |-> "Thursday", isWorking |-> TRUE,
        slots |-> <<NewSlot(<<0, 9, Colon, 0, 0>>, <<1, 0, Colon, 0, 0>>, FALSE)>>]>>,
     <<[day |-> "Thursday", isWorking |-> TRUE,
        slots |-> <<NewSlot(<<1, 0, Colon, 0, 0>>, <<0, 9, Colon, 0, 0>>, FALSE)>>]>>}

CalInit ==
    /\ appointments = <<>>
    /\ payments = <<>>
    /\ calendars = [d \in Doctors |->
                      IF d = "d1" THEN [NoCalendar EXCEPT !.exists = TRUE]
                      ELSE NoCalendar]
    /\ response = ScheduleSavedReply("workingHours")
    /\ ops = 0
    /\ tasks = [t \in TaskIds |-> IdleTask]

CalRequest ==
    \/ \E d \in Doctors, t \in Times : CreateAppointment("p1", d, t, 30)
    \/ \E id \in AppointmentIds, u \in Users, st \in CalStatuses :
          UpdateAppointmentStatus(id, u, st, "r1", "error")
    \/ \E d \in Doctors, hours \in WeeklyInputs :
          SetDefaultWorkingHours(d, hours)
    \/ \E d \in Doctors, date \in BlockDates, range \in BlockRanges :
          BlockTimeSlot(d, date, range[1], range[2])

CalNext ==
    /\ ops < MaxOps
    /\ ops' = ops + 1
    /\ UNCHANGED tasks
    /\ CalRequest

SpecCal == CalInit /\ [][CalNext]_vars

\* Status changes by every user on paid appointments: the provider accepts
\* every order and capture, while refunds succeed or fail.
StatusRequest ==
    \/ \E u \in Bookers, d \in Doctors : CreateAppointment(u, d, 540, 30)
    \/ \E id \in AppointmentIds : CreatePaymentOrder(id, 50, "ok")
    \/ \E o \in OrderIds : CapturePayment(o, "COMPLETED")
    \/ \E id \in AppointmentIds, u \in Users, st \in StatusEnum,
          out \in {"ok", "error"} :
          /\ st = "cancelled" \/ out = "error"
          /\ UpdateAppointmentStatus(id, u, st, "r1", out)

StatusNext ==
    /\ ops < MaxStatusOps
    /\ ops' = ops + 1
    /\ UNCHANGED tasks
    /\ StatusRequest

SpecStatus == Init /\ [][StatusNext]_vars

\* Booking, status changes and rating, for both patients.
Scores == {3, 6}
Feedbacks == {"f1"}
RatingStatuses == {"confirmed", "completed"}

RatingRequest ==
    \/ \E u \in Patients, d \in Doctors : CreateAppointment(u, d, 540, 30)
    \/ \E id \in AppointmentIds, u \in Users, st \in RatingStatuses :
          UpdateAppointmentStatus(id, u, st, "r1", "error")
    \/ \E id \in AppointmentIds, u \in Users, sc \in Scores, f \in Feedbacks :
          AddRating(id, u, sc, f, TRUE)

RatingNext ==
    /\ ops < MaxOps
    /\ ops' = ops + 1
    /\ UNCHANGED tasks
    /\ RatingRequest

SpecRating == Init /\ [][RatingNext]_vars

\* The slots a patient is offered.  Doctor d1 owns a calendar and writes it
\* (weekly hours for Thursday, the weekday of day 0; the entry of day 0, as
\* a working day or a holiday; one blocked range) while patient p1 books
\* with d1; anyone lists the slots of either doctor.
SlotWeeklyInputs ==
    {<<[day |-> "Thursday", isWorking |-> w,
        slots |-> <<NewSlot(<<0, 9, Colon, 0, 0>>, <<0, 9, Colon, 1, 5>>, FALSE)>>]>> :
        w \in BOOLEAN}
SlotDateInputs ==
    {<<>>,
     <<NewSlot(<<9, Colon, 0, 0>>, <<9, Colon, 3, 0>>, FALSE)>>,
     <<NewSlot(<<0, 9, Colon, 1, 5>>, <<1, 0, Colon, 0, 0>>, FALSE)>>}
SlotStatuses == {"pending", "completed"}

SlotsRequest ==
    \/ \E t \in Times : CreateAppointment("p1", "d1", t, 30)
    \/ \E id \in AppointmentIds, st \in SlotStatuses :
          UpdateAppointmentStatus(id, "d1", st, "r1", "error")
    \/ \E hours \in SlotWeeklyInputs : SetDefaultWorkingHours("d1", hours)
    \/ \E slots \in SlotDateInputs, isHoliday \in BOOLEAN :
          UpdateDateSchedule("d1", 0, slots, isHoliday)
    \/ BlockTimeSlot("d1", 0, <<0, 9, Colon, 0, 0>>, <<0, 9, Colon, 1, 5>>)
    \/ \E d \in Doctors, date \in BlockDates : GetAvailableSlots(d, date)

SlotsNext ==
    /\ ops < MaxOps
    /\ ops' = ops + 1
    /\ UNCHANGED tasks
    /\ SlotsRequest

SpecSlots == CalInit /\ [][SlotsNext]_vars

\* The writes of doctor d1 to the dated part of the calendar.
ScheduleSlotInputs ==
    LET early == NewSlot(<<0, 9, Colon, 0, 0>>, <<0, 9, Colon, 1, 5>>, FALSE)
        late == NewSlot(<<0, 9, Colon, 1, 5>>, <<1, 0, Colon, 0, 0>>, FALSE)
    IN {<<early>>, <<early, late>>, <<early, late, early>>}
ScheduleRanges == {<<<<0, 9, Colon, 0, 0>>, <<0, 9, Colon, 1, 5>>>>,
                   <<<<1, 0, Colon, 0, 0>>, <<1, 1, Colon, 0, 0>>>>}
SlotIndexes == 1..3

ScheduleRequest ==
    \/ \E date \in BlockDates, slots \in ScheduleSlotInputs, isHoliday \in BOOLEAN :
          UpdateDateSchedule("d1", date, slots, isHoliday)
    \/ \E date \in BlockDates, range \in ScheduleRanges :
          BlockTimeSlot("d1", date, range[1], range[2])
    \/ \E date \in BlockDates, k \in SlotIndexes :
          UnblockTimeSlot("d1", date, k)

ScheduleNext ==
    /\ ops < MaxOps
    /\ ops' = ops + 1
    /\ UNCHANGED tasks
    /\ ScheduleRequest

SpecSchedule == CalInit /\ [][ScheduleNext]_vars

\* The hourly job beside booking, payment and the doctor's status changes.
\* The job runs at 09:30, 09:31 or 09:46, against appointments at 09:00 and
\* 09:15.
Nows == {570, 571, 586}
CronStatuses == {"confirmed", "completed"}

CronRequest ==
    \/ \E d \in Doctors, t \in Times : CreateAppointment("p1", d, t, 30)
    \/ \E id \in AppointmentIds : CreatePaymentOrder(id, 50, "ok")
    \/ \E o \in OrderIds : CapturePayment(o, "COMPLETED")
    \/ \E id \in AppointmentIds, u \in Doctors, st \in CronStatuses :
          UpdateAppointmentStatus(id, u, st, "r1", "error")
    \/ \E now \in Nows : NoShowJob(now)

CronNext ==
    /\ ops < MaxOps
    /\ ops' = ops + 1
    /\ UNCHANGED tasks
    /\ CronRequest

SpecCron == Init /\ [][CronNext]_vars

\* Booking, payment and status changes while the mail transport and the
\* notification store are down: every delivery fails.
NotifyRequest ==
    \/ \E u \in Bookers, d \in Doctors :
          CreateAppointmentMail(u, d, 540, 30, "failed")
    \/ \E id \in AppointmentIds : CreatePaymentOrder(id, 50, "ok")
    \/ \E o \in OrderIds, out \in {"COMPLETED", "error"} :
          CapturePaymentMail(o, out, "failed")
    \/ \E id \in AppointmentIds, u \in Users, st \in StatusEnum,
          out \in {"ok", "error"} :
          /\ st = "cancelled" \/ out = "error"
          /\ UpdateAppointmentStatusMail(id, u, st, "r1", out, "failed")

NotifyNext ==
    /\ ops < MaxStatusOps
    /\ ops' = ops + 1
    /\ UNCHANGED tasks
    /\ NotifyRequest

SpecNotify == Init /\ [][NotifyNext]_vars

\* Provider webhooks, signed or not, beside booking, payment and the
\* doctor's status changes.
WebhookStatuses == {"confirmed", "completed"}

WebhookRequest ==
    \/ \E u \in Bookers, d \in Doctors : CreateAppointment(u, d, 540, 30)
    \/ \E id \in AppointmentIds : CreatePaymentOrder(id, 50, "ok")
    \/ \E o \in OrderIds : CapturePayment(o, "COMPLETED")
    \/ \E id \in AppointmentIds, u \in Doctors, st \in WebhookStatuses :
          UpdateAppointmentStatus(id, u, st, "r1", "error")
    \/ \E sig \in Signatures, e \in WebhookEvents, rid \in OrderIds :
          HandleSignedWebhook(sig, e, rid)

WebhookNext ==
    /\ ops < MaxOps
    /\ ops' = ops + 1
    /\ UNCHANGED tasks
    /\ WebhookRequest

SpecWebhook == Init /\ [][WebhookNext]_vars

\* Two status updates of one appointment in flight at once, beside the
\* booking and the payment that precede them.
MaxRaceOps == 8
RaceTasks == {"t1", "t2"}
RaceCalls == {<<"d1", "confirmed">>, <<"p1", "cancelled">>}

RaceRequest ==
    \/ \E u \in Bookers : CreateAppointment(u, "d1", 540, 30) /\ UNCHANGED tasks
    \/ \E id \in AppointmentIds :
          CreatePaymentOrder(id, 50, "ok") /\ UNCHANGED tasks
    \/ \E o \in OrderIds : CapturePayment(o, "COMPLETED") /\ UNCHANGED tasks
    \/ \E t \in RaceTasks, id \in AppointmentIds, c \in RaceCalls :
          UpdateStatusLoad(t, id, c[1], c[2], "r1")
    \/ \E t \in RaceTasks, out \in {"ok", "error"} : UpdateStatusRefund(t, out)
    \/ \E t \in RaceTasks : UpdateStatusSave(t)

RaceNext ==
    /\ ops < MaxRaceOps
    /\ ops' = ops + 1
    /\ RaceRequest

SpecRace == Init /\ [][RaceNext]_vars

\* The hourly job, await by await, beside the requests it runs among.  The
\* job is started every hour for ever, and each of its awaits returns: its
\* steps are weakly fair.  The requests are bounded; the job is not.
SweepNow == 586
SweepStatuses == {"confirmed", "completed"}

SweepRequest ==
    \/ \E u \in Bookers, dt \in Times : CreateAppointment(u, "d1", dt, 15)
    \/ \E id \in AppointmentIds, st \in SweepStatuses :
          UpdateAppointmentStatus(id, "d1", st, "r1", "error")

SweepJob ==
    /\ \/ NoShowJobFind(SweepNow)
       \/ NoShowJobSave
    /\ UNCHANGED ops

SweepNext ==
    \/ /\ ops < MaxOps
       /\ ops' = ops + 1
       /\ SweepRequest
       /\ UNCHANGED tasks
    \/ SweepJob

SpecSweep == Init /\ [][SweepNext]_vars /\ WF_vars(SweepJob)

\* Doctor d1 blocks ranges on days whose slots come from the weekly default
\* hours (two Thursday slots; day 0 is a Thursday) or from an entry of the
\* date, and anyone lists the slots.
BlockWeeklyInputs ==
    {<<[day |-> "Thursday", isWorking |-> w,
        slots |-> <<NewSlot(<<0, 9, Colon, 0, 0>>, <<0, 9, Colon, 1, 5>>, FALSE),
                    NewSlot(<<0, 9, Colon, 1, 5>>, <<0, 9, Colon, 3, 0>>, FALSE)>>]>> :
        w \in BOOLEAN}

BlockRequest ==
    \/ \E hours \in BlockWeeklyInputs : SetDefaultWorkingHours("d1", hours)
    \/ \E date \in BlockDates, slots \in ScheduleSlotInputs :
          UpdateDateSchedule("d1", date, slots, FALSE)
    \/ \E date \in BlockDates, range \in ScheduleRanges :
          BlockTimeSlot("d1", date, range[1], range[2])
    \/ \E date \in BlockDates : GetAvailableSlots("d1", date)

BlockNext ==
    /\ ops < MaxOps
    /\ ops' = ops + 1
    /\ UNCHANGED tasks
    /\ BlockRequest

SpecBlock == CalInit /\ [][BlockNext]_vars

\* ================================================================ claims
Active == {"pending_payment", "pending", "confirmed"}
Terminal == {"completed", "cancelled", "no_show"}

\* [a.dateTime, a.dateTime + a.duration) meets [from, from + duration).
Overlaps(a, from, duration) ==
    a.dateTime < from + duration /\ from < a.dateTime + a.duration

Participant(a, user) == user = a.doctorId \/ user = a.patientId

PaymentsOf(id) == {i \in DOMAIN payments : payments[i].appointmentId = id}

\* C1: in every reachable state no two distinct appointments of one doctor,
\* both pending_payment, pending or confirmed, have overlapping time windows.
C1_NoDoubleBooking ==
    \A i, j \in DOMAIN appointments :
        (/\ i # j
         /\ appointments[i].doctorId = appointments[j].doctorId
         /\ appointments[i].status \in Active
         /\ appointments[j].status \in Active)
        => ~Overlaps(appointments[i], appointments[j].dateTime,
                     appointments[j].duration)

\* C2: a cancellation by a participant whose refund fails (provider error, no
\* Payment, Payment already refunded) still persists the appointment as
\* cancelled, with cancelledBy the requester's role and the given reason.
C2_CancelPersistsWhenRefundFails ==
    [][\A id \in DOMAIN appointments, u \in Users, r \in Reasons,
          out \in {"ok", "error"} :
          (/\ Participant(appointments[id], u)
           /\ out \in RefundOutcomes(id)
           /\ ProcessRefund(id, out).thrown
           /\ UpdateAppointmentStatus(id, u, "cancelled", r, out))
          => /\ appointments'[id].status = "cancelled"
             /\ appointments'[id].cancelledBy = RoleOf(u)
             /\ appointments'[id].cancellationReason = r]_vars

\* C3: updateStatus on an appointment that is completed, cancelled or no_show
\* answers with an error and leaves its status as it was, whatever the target
\* status and the requester.
C3_TerminalStatusIsFinal ==
    [][\A id \in DOMAIN appointments, u \in Users, st \in StatusEnum,
          r \in Reasons, out \in {"ok", "error"} :
          (/\ appointments[id].status \in Terminal
           /\ UpdateAppointmentStatus(id, u, st, r, out))
          => /\ response'.code >= 400
             /\ appointments'[id].status = appointments[id].status]_vars

\* C4: processRefund for an appointment whose Payment is not COMPLETED fails
\* and leaves that Payment's status and refundDetails as they were.
C4_RefundOfUncapturedPaymentChangesNothing ==
    [][\A id \in DOMAIN appointments, u \in Users, r \in Reasons,
          out \in {"ok", "error"} :
          (/\ StatusPermission(appointments[id], u, "cancelled") = 0
           /\ RefundTarget(id) # NoId
           /\ payments[RefundTarget(id)].status # "COMPLETED"
           /\ UpdateAppointmentStatus(id, u, "cancelled", r, out))
          => /\ response'.note = "refund_failed"
             /\ payments'[RefundTarget(id)] = payments[RefundTarget(id)]]_vars

\* C5: capturePayment for an order whose Payment is already COMPLETED is a
\* no-op: it does not call the provider's capture API and does not modify
\* the Payment.
C5_SecondCaptureIsNoOp ==
    [][\A o \in OrderIds, out \in {"COMPLETED", "DECLINED", "error"} :
          (/\ OrderTarget(o) # NoId
           /\ payments[OrderTarget(o)].status = "COMPLETED"
           /\ CapturePayment(o, out))
          => /\ response'.api = "none"
             /\ payments' = payments]_vars

\* C6: a successful capture, by the direct call or by the capture-completed
\* webhook, leaves the status of the Payment's appointment as it was.
C6_CaptureKeepsAppointmentStatus ==
    [][/\ \A o \in OrderIds :
            (OrderTarget(o) # NoId /\ CapturePayment(o, "COMPLETED"))
            => appointments'[payments[OrderTarget(o)].appointmentId].status
                 = appointments[payments[OrderTarget(o)].appointmentId].status
       /\ \A rid \in OrderIds :
            (CaptureTarget(rid) # NoId
             /\ HandleWebhook("PAYMENT.CAPTURE.COMPLETED", rid))
            => appointments'[payments[CaptureTarget(rid)].appointmentId].status
                 = appointments[payments[CaptureTarget(rid)].appointmentId].status
      ]_vars

\* C7: for one order the capture-completed webhook and the direct capture may
\* come in either order: the first moves the Payment from PENDING to
\* COMPLETED, the second changes neither the Payment nor the appointment.
C7_WebhookAndCaptureEitherOrder ==
    [][\A o \in OrderIds :
          OrderTarget(o) # NoId =>
             LET idx == OrderTarget(o)
                 event == \/ CapturePayment(o, "COMPLETED")
                          \/ HandleWebhook("PAYMENT.CAPTURE.COMPLETED",
                                           ProviderCaptureId(o))
             IN /\ (payments[idx].status = "PENDING" /\ event)
                   => payments'[idx].status = "COMPLETED"
                /\ (payments[idx].status = "COMPLETED" /\ event)
                   => /\ payments' = payments
                      /\ appointments' = appointments]_vars

\* C8: requestReschedule by the owning patient fails with a conflict and
\* leaves dateTime, rescheduledFrom and status as they were whenever another
\* pending or confirmed appointment of the doctor overlaps the new window:
\* starting inside it, exactly at newDateTime, or before it and still running.
C8_RescheduleConflictRefused ==
    [][\A id \in DOMAIN appointments, t \in Times :
          (/\ \E j \in DOMAIN appointments :
                 /\ j # id
                 /\ appointments[j].doctorId = appointments[id].doctorId
                 /\ appointments[j].status \in {"pending", "confirmed"}
                 /\ Overlaps(appointments[j], t, appointments[id].duration)
           /\ RequestReschedule(id, appointments[id].patientId, t))
          => /\ response'.note = "conflict"
             /\ appointments'[id] = appointments[id]]_vars
\* The minutes a canonical "HH:MM" string denotes.
MinutesOf(str) == (str[1] * 10 + str[2]) * 60 + str[4] * 10 + str[5]

\* C9: blockTimeSlot(date, startTime, endTime) is refused with a conflict and
\* leaves the calendar as it was whenever some pending or confirmed
\* appointment of the doctor on that date has its time of day in
\* [startTime, endTime), however many appointments the doctor has that date.
\* (Stated for times written with two hour digits.)
C9_BlockRefusedOnBookedSlot ==
    [][\A d \in Doctors, date \in BlockDates, range \in BlockRanges :
          LET st == range[1]
              en == range[2]
          IN
          (/\ Len(st) = 5 /\ Len(en) = 5 /\ TimeRegex(st) /\ TimeRegex(en)
           /\ calendars[d].exists
           /\ \E j \in DOMAIN appointments :
                 /\ appointments[j].doctorId = d
                 /\ appointments[j].status \in {"pending", "confirmed"}
                 /\ IsoDate(appointments[j].dateTime) = IsoDate(date)
                 /\ appointments[j].dateTime % MinutesPerDay >= MinutesOf(st)
                 /\ appointments[j].dateTime % MinutesPerDay < MinutesOf(en)
           /\ BlockTimeSlot(d, date, st, en))
          => /\ response'.note = "conflict"
             /\ calendars' = calendars]_vars

\* The stages of the normal flow of appointment `id`, over an Appointment
\* and a Payment collection.
PaymentsFor(pays, id) == {i \in DOMAIN pays : pays[i].appointmentId = id}

OnlyPaymentIs(pays, id, status) ==
    /\ Cardinality(PaymentsFor(pays, id)) = 1
    /\ \A i \in PaymentsFor(pays, id) : pays[i].status = status

Booked(apps, pays, id) ==
    apps[id].status = "pending_payment" /\ PaymentsFor(pays, id) = {}

Ordered(apps, pays, id) ==
    apps[id].status = "pending" /\ OnlyPaymentIs(pays, id, "PENDING")

Captured(apps, pays, id) ==
    apps[id].status = "pending" /\ OnlyPaymentIs(pays, id, "COMPLETED")

Confirmed(apps, pays, id) ==
    apps[id].status = "confirmed" /\ OnlyPaymentIs(pays, id, "COMPLETED")

Refunded(apps, pays, id) ==
    /\ apps[id].status = "cancelled"
    /\ apps[id].cancelledBy = "patient"
    /\ OnlyPaymentIs(pays, id, "REFUNDED")
    /\ \A i \in PaymentsFor(pays, id) :
          pays[i].refundDetails.amount = pays[i].amount

\* C10: along the normal flow createAppointment yields pending_payment with
\* no Payment; createOrder adds one PENDING Payment of the given amount and
\* sets pending; a successful capture sets the Payment COMPLETED and the
\* appointment stays pending; updateStatus(confirmed) by its doctor sets
\* confirmed; updateStatus(cancelled) by its patient with a successful
\* provider refund ends REFUNDED (refund amount = amount), cancelled,
\* cancelledBy = patient.
C10_NormalFlow ==
    [][/\ \A u \in Patients, d \in Doctors, t \in Times, dur \in Durations :
            CreateAppointment(u, d, t, dur)
            => Booked(appointments', payments', Len(appointments'))
       /\ \A id \in DOMAIN appointments :
            /\ \A a \in Amounts :
                 (Booked(appointments, payments, id) /\ CreatePaymentOrder(id, a, "ok"))
                 => /\ Ordered(appointments', payments', id)
                    /\ \A i \in PaymentsFor(payments', id) : payments'[i].amount = a
            /\ \A i \in PaymentsFor(payments, id) :
                 (/\ Ordered(appointments, payments, id)
                  /\ CapturePayment(payments[i].paypalOrderId, "COMPLETED"))
                 => /\ Captured(appointments', payments', id)
                    /\ payments'[i].amount = payments[i].amount
            /\ \A r \in Reasons, out \in {"ok", "error"} :
                 (/\ Captured(appointments, payments, id)
                  /\ UpdateAppointmentStatus(id, appointments[id].doctorId,
                                             "confirmed", r, out))
                 => Confirmed(appointments', payments', id)
            /\ \A r \in Reasons :
                 (/\ Confirmed(appointments, payments, id)
                  /\ UpdateAppointmentStatus(id, appointments[id].patientId,
                                             "cancelled", r, "ok"))
                 => /\ Refunded(appointments', payments', id)
                    /\ appointments'[id].cancellationReason = r
                    /\ \A i \in PaymentsFor(payments, id) :
                          payments'[i].refundDetails.amount = payments[i].amount
      ]_vars

\* The flow has run to its end: the fifth request was the cancellation with
\* a refund, and the appointment's only Payment is REFUNDED.
C10_FlowCompleted ==
    /\ ops = 5
    /\ response.op = "updateStatus" /\ response.api = "captures.refund"
    /\ response.note = "updated"
    /\ Len(appointments) = 1 /\ Len(payments) = 1
    /\ Refunded(appointments, payments, 1)
    /\ payments[1].captureId # NoId

\* C11: updateAppointmentStatus answers 403 and changes nothing (appointments
\* and payments as they were, no provider call) when the requester is a
\* doctor other than the appointment's doctor, a patient other than the
\* appointment's patient, or a patient asking for "confirmed".
C11_ForbiddenStatusUpdateChangesNothing ==
    [][response'.op = "updateStatus" =>
       \A id \in AppointmentIds, u \in Users, st \in StatusEnum, r \in {"r1"},
          out \in {"ok", "error"} :
          (/\ id \in DOMAIN appointments
           /\ \/ RoleOf(u) = "doctor" /\ appointments[id].doctorId # u
              \/ RoleOf(u) = "patient" /\ appointments[id].patientId # u
              \/ RoleOf(u) = "patient" /\ st = "confirmed"
           /\ UpdateAppointmentStatus(id, u, st, r, out))
          => /\ response'.code = 403
             /\ ~response'.ok
             /\ response'.api = "none"
             /\ appointments' = appointments
             /\ payments' = payments]_vars

\* A status update has just been refused while the appointment is pending
\* with a captured payment on it.
C11_StatusUpdateRefused ==
    /\ response.op = "updateStatus"
    /\ response.code = 403
    /\ \E id \in DOMAIN appointments :
          /\ appointments[id].status = "pending"
          /\ \E i \in DOMAIN payments :
                /\ payments[i].appointmentId = id
                /\ payments[i].status = "COMPLETED"

\* C12: createPaymentOrder on an appointment whose status is neither
\* pending_payment nor pending is answered as a bad request (HTTP 400, no
\* success), opens no provider order, creates no Payment and leaves the
\* appointment as it was.
C12_CreateOrderInvalidStatusIsBadRequest ==
    [][\A id \in AppointmentIds, a \in Amounts, out \in {"ok", "error"} :
          (/\ id \in DOMAIN appointments
           /\ appointments[id].status \notin {"pending_payment", "pending"}
           /\ CreatePaymentOrder(id, a, out))
          => /\ response'.code = 400
             /\ ~response'.ok
             /\ response'.api = "none"
             /\ payments' = payments
             /\ appointments' = appointments]_vars

\* C13: requestReschedule on an appointment in a terminal status (completed,
\* cancelled, no_show) fails and leaves the appointment as it was: it does
\* not re-enter pending.
C13_RescheduleOnlyFromPendingOrConfirmed ==
    [][\A id \in AppointmentIds, u \in Users, t \in Times :
          (/\ id \in DOMAIN appointments
           /\ appointments[id].status \in Terminal
           /\ RequestReschedule(id, u, t))
          => /\ ~response'.ok
             /\ appointments' = appointments]_vars

ClockMinutes(str) ==
    IF Len(str) = 5 THEN MinutesOf(str)
    ELSE str[1] * 60 + str[3] * 10 + str[4]

\* C15: getAvailableSlots returns no slot marked isBlocked, and a returned
\* slot has isBooked = TRUE exactly when some pending or confirmed
\* appointment of the doctor on the date has the slot's startTime as its time
\* of day.
C15_SlotsBookedExactlyWhenAppointed ==
    [][\A d \in Doctors, date \in BlockDates :
          (calendars[d].exists /\ GetAvailableSlots(d, date))
          => \A k \in DOMAIN response'.availableSlots :
                LET slot == response'.availableSlots[k] IN
                /\ ~slot.isBlocked
                /\ slot.isBooked <=>
                      \E j \in DOMAIN appointments :
                          /\ appointments[j].doctorId = d
                          /\ appointments[j].status \in {"pending", "confirmed"}
                          /\ IsoDate(appointments[j].dateTime) = IsoDate(date)
                          /\ appointments[j].dateTime % MinutesPerDay
                                = ClockMinutes(slot.startTime)]_vars

\* The (startTime, endTime) pairs of the slots that are not blocked.
OpenSlotTimes(slots) ==
    {<<slots[i].startTime, slots[i].endTime>> :
        i \in {k \in DOMAIN slots : ~slots[k].isBlocked}}

ReturnedSlotTimes(slots) ==
    {<<slots[i].startTime, slots[i].endTime>> : i \in DOMAIN slots}

\* The date's explicit entry and the weekday's default entry of a calendar,
\* as sets of at most one element.
DateEntries(calendar, date) ==
    LET found == {i \in DOMAIN calendar.schedule :
                     IsoDate(calendar.schedule[i].date) = IsoDate(date)}
    IN {calendar.schedule[i] : i \in {k \in found : \A m \in found : k <= m}}

WeekdayEntries(calendar, date) ==
    LET found == {i \in DOMAIN calendar.defaultWorkingHours :
                     calendar.defaultWorkingHours[i].day = DayOfWeek(date)}
    IN {calendar.defaultWorkingHours[i] :
           i \in {k \in found : \A m \in found : k <= m}}

\* C16 as stated: getAvailableSlots takes its slots from the explicit entry
\* of the date when there is one and it is not a holiday, otherwise from the
\* default entry of the date's weekday when that entry is working, and
\* otherwise returns no slot.
C16_SlotsFromEntryElseDefault ==
    [][\A d \in Doctors, date \in BlockDates :
          (calendars[d].exists /\ GetAvailableSlots(d, date))
          => LET entries == DateEntries(calendars[d], date)
                 defaults == WeekdayEntries(calendars[d], date)
                 returned == ReturnedSlotTimes(response'.availableSlots)
             IN IF \E e \in entries : ~e.isHoliday
                THEN \A e \in entries : returned = OpenSlotTimes(e.slots)
                ELSE IF \E h \in defaults : h.isWorking
                THEN \A h \in defaults : returned = OpenSlotTimes(h.slots)
                ELSE returned = {}]_vars

\* C16 amended: getAvailableSlots takes its slots from the explicit entry of
\* the date when there is one (none of them when that entry is a holiday);
\* only when the date has no explicit entry does it take them from the
\* default entry of the date's weekday, when that entry is working; and
\* otherwise it returns no slot.
C16_SlotsFromEntryElseDefaultUnlessHoliday ==
    [][\A d \in Doctors, date \in BlockDates :
          (calendars[d].exists /\ GetAvailableSlots(d, date))
          => LET entries == DateEntries(calendars[d], date)
                 defaults == WeekdayEntries(calendars[d], date)
                 returned == ReturnedSlotTimes(response'.availableSlots)
             IN /\ response'.ok
                /\ IF entries # {}
                   THEN \A e \in entries :
                           returned = IF e.isHoliday THEN {}
                                      ELSE OpenSlotTimes(e.slots)
                   ELSE IF \E h \in defaults : h.isWorking
                   THEN \A h \in defaults : returned = OpenSlotTimes(h.slots)
                   ELSE returned = {}]_vars

\* The slots of a holiday were listed, for a doctor whose default hours of
\* that weekday are working hours with a slot: none was returned.
C16_HolidayListed ==
    /\ response.op = "availableSlots"
    /\ response.code = 200
    /\ response.availableSlots = <<>>
    /\ \E e \in DateEntries(calendars["d1"], response.date) : e.isHoliday
    /\ \E h \in WeekdayEntries(calendars["d1"], response.date) :
          h.isWorking /\ OpenSlotTimes(h.slots) # {}

\* C17: whatever updateDateSchedule, blockTimeSlot and unblockTimeSlot calls
\* were made on a calendar, no date entry holds two slots with the same
\* (startTime, endTime), whether the entry was replaced or inserted.
C17_NoDuplicateSlots ==
    \A d \in Doctors :
        \A e \in DOMAIN calendars[d].schedule :
            LET slots == calendars[d].schedule[e].slots IN
            \A i, j \in DOMAIN slots :
                (/\ slots[i].startTime = slots[j].startTime
                 /\ slots[i].endTime = slots[j].endTime) => i = j

C20_DeliveryFailureChangesNothing ==
    [][/\ \A u \in Bookers, d \in Doctors :
             CreateAppointmentMail(u, d, 540, 30, "failed")
             => /\ response'.code = 201
                /\ Len(appointments') = Len(appointments) + 1
                /\ appointments'[Len(appointments')].status = "pending_payment"
       /\ \A o \in OrderIds :
             (OrderTarget(o) # NoId /\ CapturePaymentMail(o, "COMPLETED", "failed"))
             => /\ response'.code = 200
                /\ payments'[OrderTarget(o)].status = "COMPLETED"
                /\ appointments'[payments[OrderTarget(o)].appointmentId].status
                      = "pending"
       /\ \A id \in AppointmentIds, u \in Users, st \in StatusEnum \ {"cancelled"} :
             (/\ id \in DOMAIN appointments
              /\ StatusPermission(appointments[id], u, st) = 0
              /\ UpdateAppointmentStatusMail(id, u, st, "r1", "error", "failed"))
             => /\ response'.code = 200
                /\ appointments'[id].status = st
       /\ \A id \in AppointmentIds, u \in Users :
             (/\ id \in DOMAIN appointments
              /\ StatusPermission(appointments[id], u, "cancelled") = 0
              /\ RefundTarget(id) # NoId
              /\ payments[RefundTarget(id)].status = "COMPLETED"
              /\ UpdateAppointmentStatusMail(id, u, "cancelled", "r1", "ok", "failed"))
             => /\ response'.code = 200
                /\ response'.note = "updated"
                /\ appointments'[id].status = "cancelled"
                /\ payments'[RefundTarget(id)].status = "REFUNDED"]_vars

\* With every delivery failing, an appointment was booked, paid, and then
\* cancelled with its refund recorded.
C20_RefundedWithoutMail ==
    /\ response.op = "updateStatus"
    /\ response.code = 200
    /\ response.note = "updated"
    /\ \E id \in DOMAIN appointments :
          /\ appointments[id].status = "cancelled"
          /\ \E k \in DOMAIN payments :
                /\ payments[k].appointmentId = id
                /\ payments[k].status = "REFUNDED"
                /\ payments[k].captureId # NoId

\* C21: a webhook request whose provider signature is not valid is rejected
\* before any processing: it is answered as an error and changes no Payment
\* and no appointment.
C21_UnsignedWebhookRejected ==
    [][\A e \in WebhookEvents, rid \in OrderIds :
          HandleSignedWebhook("invalid", e, rid)
          => /\ payments' = payments
             /\ appointments' = appointments
             /\ ~response'.ok]_vars

\* C22: when two updateStatus calls on one appointment interleave, the call
\* that finds at its write a stored status that is terminal - although the
\* status it read was not - fails and leaves the other call's result, so the
\* appointment ends as in a serial execution that rejected the later call.
C22_StaleStatusUpdateFails ==
    [][\A t \in RaceTasks :
          (/\ UpdateStatusSave(t)
           /\ tasks[t].seen \notin Terminal
           /\ appointments[tasks[t].id].status \in Terminal)
          => /\ appointments' = appointments
             /\ ~response'.ok]_vars

\* C23: the hourly job never overwrites a status written while it runs: an
\* appointment that is no longer confirmed when the job saves it keeps the
\* status it has.
C23_SweepKeepsConcurrentStatus ==
    [][(/\ NoShowJobSave
        /\ appointments[Head(tasks["job"].found)].status # "confirmed")
       => appointments' = appointments]_vars

\* C30: with the hourly job run again and again, every appointment that is
\* confirmed and more than 30 minutes past, and whose own save does not
\* throw, eventually stops being confirmed (the job sets it no_show unless a
\* request changes it first), even when the save of another appointment of
\* the same run throws.
C30_StaleConfirmedEventuallyNoShow ==
    \A id \in AppointmentIds \ Unsavable :
        (/\ id \in DOMAIN appointments
         /\ Missed(appointments[id], SweepNow))
        ~> (/\ id \in DOMAIN appointments
            /\ appointments[id].status # "confirmed")

\* C24: in updateStatus the emails of a transition are dispatched only after
\* the new status is persisted: whenever a call has sent its emails, the
\* stored appointment holds the status the call asked for.
C24_EmailsOnlyAfterStatusPersisted ==
    \A t \in RaceTasks :
        tasks[t].pc = "mailed"
        => appointments[tasks[t].id].status = tasks[t].status

\* C25: under any sequence or interleaving of cancellations of one
\* appointment, a refund the provider carries out is for a Payment that was
\* not refunded before: no Payment is refunded a second time.
C25_RefundedAtMostOnce ==
    [][\A t \in RaceTasks :
          UpdateStatusRefund(t, "ok")
          => payments[tasks[t].target].refundDetails = NoRefund]_vars

\* C26: when an appointment has several Payments, cancelling it refunds the
\* captured one: while a COMPLETED Payment of the appointment exists, the
\* cancellation leaves its never-captured PENDING Payments as they are.
C26_RefundTargetsCapturedPayment ==
    [][\A id \in AppointmentIds, u \in Users, r \in Reasons,
         out \in {"ok", "error"} :
          (/\ UpdateAppointmentStatus(id, u, "cancelled", r, out)
           /\ \E i \in PaymentsOf(id) : payments[i].status = "COMPLETED")
          => \A i \in PaymentsOf(id) :
                payments[i].status = "PENDING" => payments'[i] = payments[i]]_vars

\* C27: in every reachable state a confirmed appointment has a Payment that
\* was captured.
C27_ConfirmedHasCapturedPayment ==
    \A id \in DOMAIN appointments :
        appointments[id].status = "confirmed"
        => \E i \in PaymentsOf(id) : payments[i].captureId # NoId

\* C28: a PAYMENT.CAPTURE.DENIED webhook never moves a COMPLETED or REFUNDED
\* Payment to FAILED and never sets a confirmed or terminal appointment back
\* to pending_payment.
C28_DeniedWebhookKeepsSettledState ==
    [][\A rid \in OrderIds :
          HandleSignedWebhook("valid", "PAYMENT.CAPTURE.DENIED", rid)
          => /\ \A i \in DOMAIN payments :
                   payments[i].status \in {"COMPLETED", "REFUNDED"}
                   => payments'[i].status # "FAILED"
             /\ \A id \in DOMAIN appointments :
                   appointments[id].status \in Terminal \cup {"confirmed"}
                   => appointments'[id].status # "pending_payment"]_vars

\* C29: a blockTimeSlot that is saved removes only its own interval from the
\* date's getAvailableSlots result: every other slot returned for the doctor
\* and date before the block, slots from defaultWorkingHours included, is
\* returned after it.
C29_BlockRemovesOnlyItsInterval ==
    [][\A date \in BlockDates, range \in ScheduleRanges :
          (/\ BlockTimeSlot("d1", date, range[1], range[2])
           /\ response'.note = "saved")
          => ReturnedSlotTimes(AvailableSlots("d1", date)) \ {range}
                \subseteq ReturnedSlotTimes(AvailableSlots("d1", date))']_vars

====
